---- MODULE Spec2Model ----
(***************************************************************************)
(* Model of src/src/output_devices_rppal.rs: OutputDeviceR (a pin with a   *)
(* polarity) and DigitalOutputDeviceR (the same device behind              *)
(* Arc<Mutex<..>>, with background blink threads and the shared            *)
(* AtomicBool `blinking`).                                                 *)
(*                                                                         *)
(* One caller thread owns the DigitalOutputDeviceR and issues calls one    *)
(* after the other; every blink() spawns one thread.  Each step of a       *)
(* thread is one access to shared memory: an atomic store or load of       *)
(* `blinking`, a Mutex acquisition, or the guarded operation together with *)
(* the release of the guard (the guard is a temporary that is dropped at   *)
(* the end of the statement).  What a thread does on its own (a           *)
(* thread::sleep, the next item of the range 0..end, the return of the     *)
(* closure) belongs to the step of the shared access next to it.           *)
(***************************************************************************)
EXTENDS Integers, Sequences, FiniteSets, TLC

\* ------------------------------------------------------------- bounds
\* Blink threads that can be alive at the same time under Spec; WideSpec and
\* FairSpec allow one more.
MaxTasks == 1
\* Largest count passed as n = Some(count); counts range over -1..MaxN.
MaxN == 2
\* Calls the history `calls` keeps.
HistLen == 3

Tasks == 1..MaxTasks
Slots == 1..(MaxTasks + 1)
Caller == 0
NoOwner == -1

\* Option<i32>
None == [some |-> FALSE, end |-> 0]
Some(k) == [some |-> TRUE, end |-> k]
NChoices == {None} \cup {Some(k) : k \in -1..MaxN}

\* rppal::gpio::Level, as the boolean that write_state/value use
High == TRUE
Low == FALSE

VARIABLES
    device,       \* OutputDeviceR: [pin, active_state, inactive_state]
    lock,         \* owner of the Mutex around device, or NoOwner
    blinking,     \* the AtomicBool shared with the blink threads
    strong,       \* strong count of the Arc around the Mutex<OutputDeviceR>
    callerOp,     \* the method the caller is in (or has last returned from)
    callerPc,     \* the caller's position in that method
    callerValue,  \* the bool argument of set_active_high
    callerN,      \* the n argument of blink
    ret,          \* the bool returned by value/is_active/active_high
    taskPc,       \* per blink thread: its position ("none": no such thread)
    taskN,        \* per blink thread: the n its closure captured
    taskI,        \* per blink thread: the iterations the range 0..end has yielded
    calls,        \* history: the last calls made one after the other with no blink thread alive
    writes,       \* history: per thread of a finite blink, the logical values it has written
    cancelled,    \* history: per blink thread, a stop() cleared the flag since its spawn
    trace,        \* history: what the caller has done to the flag, the pin and the threads in the call it is in
    stopped       \* history: per blink thread, the on-writes since a stop() that followed its store(true)

vars == <<device, lock, blinking, strong, callerOp, callerPc, callerValue, callerN,
          ret, taskPc, taskN, taskI, calls, writes, cancelled, trace, stopped>>

callerVars == <<callerOp, callerPc, callerValue, callerN, ret, calls, trace>>
taskVars == <<taskPc, taskN, taskI, writes>>

\* ------------------------------------------------------------- OutputDeviceR

\* pin.set_high() / pin.set_low() / pin.read() of the rppal IoPin
set_high(d) == [d EXCEPT !.pin = High]
set_low(d) == [d EXCEPT !.pin = Low]

\* mutant: the polarity change also inverts the level of the pin
set_active_high_redrive(d, value) ==
    [d EXCEPT !.pin = ~d.pin, !.active_state = value, !.inactive_state = ~value]

\* mutant: set_active_high(false) leaves inactive_state as it is
set_active_high_half(d, value) ==
    IF value
    THEN [d EXCEPT !.active_state = TRUE, !.inactive_state = FALSE]
    ELSE [d EXCEPT !.active_state = FALSE]

set_active_high(d, value) ==
    IF value
    THEN [d EXCEPT !.active_state = TRUE, !.inactive_state = FALSE]
    ELSE [d EXCEPT !.active_state = FALSE, !.inactive_state = TRUE]

active_high(d) == d.active_state

\* mutant: both logical values map to active_state
value_to_state_active(d, value) == d.active_state

value_to_state(d, value) == IF value THEN d.active_state ELSE d.inactive_state

state_to_value(d, state) == state = d.active_state

\* mutant: the level is written without regard to the polarity
write_state_raw(d, value) == IF value THEN set_high(d) ELSE set_low(d)

write_state(d, value) == IF value_to_state(d, value) THEN set_high(d) ELSE set_low(d)

on(d) == write_state(d, TRUE)

off(d) == write_state(d, FALSE)

value(d) == IF d.pin = Low THEN state_to_value(d, FALSE) ELSE state_to_value(d, TRUE)

\* is_active comes from impl_gpio_device!, which is not part of the source at
\* hand; the specification gives it as equal to value().
is_active(d) == value(d)

\* mutant: toggle turns the device on whatever it reads
toggle_on(d) == on(d)

toggle(d) == IF is_active(d) THEN off(d) ELSE on(d)

\* OutputDeviceR::new: polarity active-high; the level of the pin is whatever
\* the hardware has when the pin is put in output mode.
OutputDeviceR_new(level) == [pin |-> level, active_state |-> TRUE, inactive_state |-> FALSE]

\* ------------------------------------------------------------- DigitalOutputDeviceR

Ops == {"on", "off", "toggle", "value", "is_active", "active_high",
        "set_active_high", "pin", "blink"}

\* mutant: toggle stops the blink first, as on and off do
CallsStop_toggle(op) == op \in {"on", "off", "toggle", "blink"}

\* mutant: blink spawns the new thread without stop()
CallsStop_noblink(op) == op \in {"on", "off"}

\* The methods whose first statement is self.stop()
CallsStop(op) == op \in {"on", "off", "blink"}

\* Where a method goes on after stop(), or begins without it: blink clones
\* the Arcs and spawns, the others lock the device
AfterStop(op) == IF op = "blink" THEN "spawn" ELSE "device_lock"

Alive(t) == taskPc[t] # "none"
AliveTasks == {t \in Slots : Alive(t)}
\* thread::spawn can start a thread in T: there is a slot for it
CanSpawn(T) == \E t \in T : ~Alive(t)
FreeSlot(T) == CHOOSE t \in T : ~Alive(t) /\ \A u \in T : ~Alive(u) => t <= u

\* DigitalOutputDeviceR::new
Init ==
    /\ \E level \in BOOLEAN : device = OutputDeviceR_new(level)
    /\ lock = NoOwner
    /\ blinking = FALSE
    /\ strong = 1
    /\ callerOp = "new"
    /\ callerPc = "idle"
    /\ callerValue = FALSE
    /\ callerN = None
    /\ ret = FALSE
    /\ taskPc = [t \in Slots |-> "none"]
    /\ taskN = [t \in Slots |-> None]
    /\ taskI = [t \in Slots |-> 0]
    /\ calls = <<>>
    /\ writes = [t \in Slots |-> <<>>]
    /\ cancelled = [t \in Slots |-> FALSE]
    /\ trace = <<>>
    /\ stopped = [t \in Slots |-> "no"]

\* History: a call of on, off, toggle or set_active_high that begins with no
\* blink thread alive is recorded with the state it begins in; any other call
\* empties the history.
LastOf(h) == IF Len(h) < HistLen THEN h ELSE SubSeq(h, Len(h) - HistLen + 2, Len(h))
Recorded(op, v) ==
    IF AliveTasks = {} /\ op \in {"on", "off", "toggle", "set_active_high"}
    THEN Append(LastOf(calls), [op |-> op, value |-> v, device |-> device, blinking |-> blinking])
    ELSE <<>>

\* History: the event a store of the flag / a write of the pin leaves in trace
FlagEvent(b) == IF b THEN "store_true" ELSE "store_false"
PinEvent(level) == IF level = High THEN "set_high" ELSE "set_low"

\* History: stop() clears the flag; a thread that has stored true before is
\* signalled from then on ("yes", then "on" after one on-write, "on2" after
\* more), until a store(true) raises the flag again or the thread ends
Signalled(t) ==
    IF taskPc[t] \in {"none", "start"} THEN "no"
    ELSE IF stopped[t] = "no" THEN "yes" ELSE stopped[t]
AfterOn(s) ==
    CASE s = "yes" -> "on"
      [] s = "on" -> "on2"
      [] OTHER -> s

\* The arguments a call of op takes
ValueArgs(op) == IF op = "set_active_high" THEN BOOLEAN ELSE {FALSE}
NArgs(op) == IF op = "blink" THEN NChoices ELSE {None}

\* The caller enters a method.
Call(op, v, n, T) ==
    /\ callerPc = "idle"
    /\ op = "blink" => CanSpawn(T)
    /\ callerOp' = op
    /\ callerValue' = v
    /\ callerN' = n
    /\ callerPc' = (IF CallsStop(op) THEN "stop_store" ELSE AfterStop(op))
    /\ ret' = FALSE
    /\ calls' = Recorded(op, v)
    /\ trace' = <<>>
    /\ UNCHANGED <<device, lock, blinking, strong, taskVars, cancelled, stopped>>

\* mutant: stop() flips the flag instead of clearing it
stop_store_flip ==
    /\ callerPc = "stop_store"
    /\ blinking' = ~blinking
    /\ cancelled' = [t \in Slots |-> Alive(t)]
    /\ stopped' = [t \in Slots |-> Signalled(t)]
    /\ trace' = Append(trace, FlagEvent(blinking'))
    /\ callerPc' = "stop_lock"
    /\ UNCHANGED <<device, lock, strong, callerOp, callerValue, callerN, ret, calls, taskVars>>

\* stop(), first statement: self.blinking.clone().store(false, SeqCst)
stop_store ==
    /\ callerPc = "stop_store"
    /\ blinking' = FALSE
    /\ cancelled' = [t \in Slots |-> Alive(t)]
    /\ stopped' = [t \in Slots |-> Signalled(t)]
    /\ trace' = Append(trace, FlagEvent(blinking'))
    /\ callerPc' = "stop_lock"
    /\ UNCHANGED <<device, lock, strong, callerOp, callerValue, callerN, ret, calls, taskVars>>

\* stop(), second statement: self.device.lock().unwrap() ...
stop_lock ==
    /\ callerPc = "stop_lock"
    /\ lock = NoOwner
    /\ lock' = Caller
    /\ callerPc' = "stop_set_low"
    /\ UNCHANGED <<device, blinking, strong, callerOp, callerValue, callerN, ret, calls,
                   trace, taskVars, cancelled, stopped>>

\* mutant: stop() writes the inactive level of the device instead of low
stop_set_low_off ==
    /\ callerPc = "stop_set_low"
    /\ lock = Caller
    /\ device' = off(device)
    /\ lock' = NoOwner
    /\ callerPc' = AfterStop(callerOp)
    /\ trace' = Append(trace, PinEvent(device'.pin))
    /\ UNCHANGED <<blinking, strong, callerOp, callerValue, callerN, ret, calls,
                   taskVars, cancelled, stopped>>

\* ... .pin.set_low(); the guard is dropped
stop_set_low ==
    /\ callerPc = "stop_set_low"
    /\ lock = Caller
    /\ device' = set_low(device)
    /\ lock' = NoOwner
    /\ callerPc' = AfterStop(callerOp)
    /\ trace' = Append(trace, PinEvent(device'.pin))
    /\ UNCHANGED <<blinking, strong, callerOp, callerValue, callerN, ret, calls,
                   taskVars, cancelled, stopped>>

\* blink(): the two Arc::clone and thread::spawn; blink returns
blink_spawn(T) ==
    /\ callerPc = "spawn"
    /\ CanSpawn(T)
    /\ strong' = strong + 1
    /\ taskPc' = [taskPc EXCEPT ![FreeSlot(T)] = "start"]
    /\ taskN' = [taskN EXCEPT ![FreeSlot(T)] = callerN]
    /\ taskI' = [taskI EXCEPT ![FreeSlot(T)] = 0]
    /\ writes' = [writes EXCEPT ![FreeSlot(T)] = <<>>]
    /\ cancelled' = [cancelled EXCEPT ![FreeSlot(T)] = FALSE]
    /\ stopped' = [stopped EXCEPT ![FreeSlot(T)] = "no"]
    /\ callerN' = None
    /\ callerPc' = "idle"
    /\ trace' = Append(trace, "spawn")
    /\ UNCHANGED <<device, lock, blinking, callerOp, callerValue, ret, calls>>

\* mutant: the caller takes the guard although a thread holds it
device_lock_barge ==
    /\ callerPc = "device_lock"
    /\ lock' = Caller
    /\ callerPc' = "device_op"
    /\ UNCHANGED <<device, blinking, strong, callerOp, callerValue, callerN, ret, calls,
                   trace, taskVars, cancelled, stopped>>

\* self.device.lock().unwrap() of on, off, toggle, value, is_active,
\* active_high, set_active_high and pin
device_lock ==
    /\ callerPc = "device_lock"
    /\ lock = NoOwner
    /\ lock' = Caller
    /\ callerPc' = "device_op"
    /\ UNCHANGED <<device, blinking, strong, callerOp, callerValue, callerN, ret, calls,
                   trace, taskVars, cancelled, stopped>>

\* What the method does to the OutputDeviceR under the guard
DeviceOp(op, d, v) ==
    CASE op = "on" -> on(d)
      [] op = "off" -> off(d)
      [] op = "toggle" -> toggle(d)
      [] op = "set_active_high" -> set_active_high(d, v)
      [] OTHER -> d

\* What the method returns
DeviceRet(op, d) ==
    CASE op = "value" -> value(d)
      [] op = "is_active" -> is_active(d)
      [] op = "active_high" -> active_high(d)
      [] OTHER -> FALSE

\* the inner method runs under the guard, the guard is dropped, the method returns
device_op ==
    /\ callerPc = "device_op"
    /\ lock = Caller
    /\ device' = DeviceOp(callerOp, device, callerValue)
    /\ ret' = DeviceRet(callerOp, device)
    /\ lock' = NoOwner
    /\ callerValue' = FALSE
    /\ callerPc' = "idle"
    /\ trace' = (IF callerOp \in {"on", "off", "toggle"}
                 THEN Append(trace, PinEvent(device'.pin)) ELSE trace)
    /\ UNCHANGED <<blinking, strong, callerOp, callerN, calls, taskVars, cancelled, stopped>>

\* close(self): drop(self) drops the caller's two Arcs and nothing else
close ==
    /\ callerPc = "idle"
    /\ callerOp' = "close"
    /\ callerPc' = "closed"
    /\ strong' = strong - 1
    /\ callerValue' = FALSE
    /\ callerN' = None
    /\ ret' = FALSE
    /\ calls' = <<>>
    /\ trace' = <<>>
    /\ UNCHANGED <<device, lock, blinking, taskVars, cancelled, stopped>>

\* ------------------------------------------------------------- the blink thread

\* The history of writes is kept for the threads of a finite blink (a thread
\* of blink(.., None) writes without end).
Logged(t, log, v) == IF taskN[t].some THEN Append(log, v) ELSE log

\* The closure returns: its two Arcs are dropped and the thread is gone.
Exited(t) ==
    /\ strong' = strong - 1
    /\ taskPc' = [taskPc EXCEPT ![t] = "none"]
    /\ taskN' = [taskN EXCEPT ![t] = None]
    /\ taskI' = [taskI EXCEPT ![t] = 0]
    /\ writes' = [writes EXCEPT ![t] = <<>>]
    /\ cancelled' = [cancelled EXCEPT ![t] = FALSE]
    /\ stopped' = [stopped EXCEPT ![t] = "no"]

\* mutant: the range is inclusive (0..=end)
RangeYields_inclusive(i, end) == i <= end

\* `for _ in 0..end`: the range yields another item after i of them
RangeYields(i, end) == i < end

\* mutant: the thread does not store true
task_store_skip(t) ==
    /\ taskPc[t] = "start"
    /\ taskPc' = [taskPc EXCEPT ![t] = "loop"]
    /\ UNCHANGED <<device, lock, blinking, strong, callerVars, taskN, taskI, writes, cancelled,
                   stopped>>

\* blinking.store(true, SeqCst)
task_store(t) ==
    /\ taskPc[t] = "start"
    /\ blinking' = TRUE
    /\ stopped' = [u \in Slots |-> "no"]
    /\ taskPc' = [taskPc EXCEPT ![t] = "loop"]
    /\ UNCHANGED <<device, lock, strong, callerVars, taskN, taskI, writes, cancelled>>

\* mutant: the thread does not look at the flag
task_loop_deaf(t) ==
    /\ taskPc[t] \in {"loop", "sleep_off"}
    /\ IF taskN[t].some /\ ~RangeYields(taskI[t], taskN[t].end)
       THEN Exited(t)
       ELSE /\ taskI' = [taskI EXCEPT ![t] = IF taskN[t].some THEN @ + 1 ELSE @]
            /\ taskPc' = [taskPc EXCEPT ![t] = "on_lock"]
            /\ UNCHANGED <<strong, taskN, writes, cancelled, stopped>>
    /\ UNCHANGED <<device, lock, blinking, callerVars>>

\* Top of an iteration (after the sleep of off_time, if any): the range
\* 0..end yields or ends (Some), then blinking.load(SeqCst) decides between
\* the cycle and the break
task_loop(t) ==
    /\ taskPc[t] \in {"loop", "sleep_off"}
    /\ IF taskN[t].some /\ ~RangeYields(taskI[t], taskN[t].end)
       THEN Exited(t)
       ELSE /\ taskI' = [taskI EXCEPT ![t] = IF taskN[t].some THEN @ + 1 ELSE @]
            /\ taskPc' = [taskPc EXCEPT ![t] = IF ~blinking THEN "break_lock" ELSE "on_lock"]
            /\ UNCHANGED <<strong, taskN, writes, cancelled, stopped>>
    /\ UNCHANGED <<device, lock, blinking, callerVars>>

\* mutant: the thread takes the guard although another thread holds it
task_lock_barge(t) ==
    /\ taskPc[t] \in {"break_lock", "on_lock", "sleep_on"}
    /\ lock' = t
    /\ taskPc' = [taskPc EXCEPT ![t] = CASE taskPc[t] = "break_lock" -> "break_off"
                                         [] taskPc[t] = "on_lock" -> "on"
                                         [] taskPc[t] = "sleep_on" -> "off"]
    /\ UNCHANGED <<device, blinking, strong, callerVars, taskN, taskI, writes, cancelled,
                   stopped>>

\* device.lock().unwrap() of the three statements of the body (the second
\* one after the sleep of on_time)
task_lock(t) ==
    /\ taskPc[t] \in {"break_lock", "on_lock", "sleep_on"}
    /\ lock = NoOwner
    /\ lock' = t
    /\ taskPc' = [taskPc EXCEPT ![t] = CASE taskPc[t] = "break_lock" -> "break_off"
                                         [] taskPc[t] = "on_lock" -> "on"
                                         [] taskPc[t] = "sleep_on" -> "off"]
    /\ UNCHANGED <<device, blinking, strong, callerVars, taskN, taskI, writes, cancelled,
                   stopped>>

\* mutant: the thread keeps the guard while it sleeps for on_time
task_on_hold(t) ==
    /\ taskPc[t] = "on"
    /\ lock = t
    /\ device' = on(device)
    /\ writes' = [writes EXCEPT ![t] = Logged(t, @, TRUE)]
    /\ stopped' = [stopped EXCEPT ![t] = AfterOn(@)]
    /\ taskPc' = [taskPc EXCEPT ![t] = "sleep_on"]
    /\ UNCHANGED <<lock, blinking, strong, callerVars, taskN, taskI, cancelled>>

\* ... .on(); the guard is dropped; the thread goes to sleep for on_time
task_on(t) ==
    /\ taskPc[t] = "on"
    /\ lock = t
    /\ device' = on(device)
    /\ writes' = [writes EXCEPT ![t] = Logged(t, @, TRUE)]
    /\ stopped' = [stopped EXCEPT ![t] = AfterOn(@)]
    /\ lock' = NoOwner
    /\ taskPc' = [taskPc EXCEPT ![t] = "sleep_on"]
    /\ UNCHANGED <<blinking, strong, callerVars, taskN, taskI, cancelled>>

\* ... .off() of the cycle; the guard is dropped; the thread goes to sleep
\* for off_time
task_off(t) ==
    /\ taskPc[t] = "off"
    /\ lock = t
    /\ device' = off(device)
    /\ writes' = [writes EXCEPT ![t] = Logged(t, @, FALSE)]
    /\ lock' = NoOwner
    /\ taskPc' = [taskPc EXCEPT ![t] = "sleep_off"]
    /\ UNCHANGED <<blinking, strong, callerVars, taskN, taskI, cancelled, stopped>>

\* ... .off() after the flag was found cleared; the guard is dropped; break
task_break(t) ==
    /\ taskPc[t] = "break_off"
    /\ lock = t
    /\ device' = off(device)
    /\ lock' = NoOwner
    /\ Exited(t)
    /\ UNCHANGED <<blinking, callerVars>>

TaskStep(t) ==
    \/ task_store(t)
    \/ task_loop(t)
    \/ task_lock(t)
    \/ task_on(t)
    \/ task_off(t)
    \/ task_break(t)

\* a step inside a method the caller has entered
CallerStep(T) ==
    \/ stop_store
    \/ stop_lock
    \/ stop_set_low
    \/ blink_spawn(T)
    \/ device_lock
    \/ device_op

\* The program with the blink threads confined to the slots T
NextOf(T) ==
    \/ \E op \in Ops : \E v \in ValueArgs(op), n \in NArgs(op) : Call(op, v, n, T)
    \/ CallerStep(T)
    \/ close
    \/ \E t \in T : TaskStep(t)

Next == NextOf(Tasks)

\* At most MaxTasks blink threads alive at a time
Spec == Init /\ [][Next]_vars

\* One more: MaxTasks + 1 blink threads alive at a time
NextWide == NextOf(Slots)

WideSpec == Init /\ [][NextWide]_vars

\* Every thread that can take a step eventually takes one; a thread waiting
\* for the Mutex gets it if it is free again and again.  Entering a method
\* and close are the caller's choice and carry no fairness.
FairSpec ==
    /\ WideSpec
    /\ SF_vars(CallerStep(Slots))
    /\ \A t \in Slots : SF_vars(TaskStep(t))

\* The same fairness with at most MaxTasks blink threads alive at a time
FairSpecNarrow ==
    /\ Spec
    /\ SF_vars(CallerStep(Tasks))
    /\ \A t \in Tasks : SF_vars(TaskStep(t))

\* ------------------------------------------------------------- properties

\* state of the caller after a method has returned
Returned(op) == callerPc = "idle" /\ callerOp = op

\* the caller takes a step of the method op
CallerStepOf(op) == callerOp' = op /\ callerPc' # callerPc

\* the k-th last call of the history (0: the call the caller is in or has
\* last returned from), with the state it began in
Prev(k) == calls[Len(calls) - k]

\* C1: once on() has returned and the caller makes no further call, value()
\* eventually becomes true and stays true, whatever blink thread was running
\* when on() was called.
C1_OnLeavesDeviceOn == <>[]Returned("on") => <>[]value(device)

\* C2: on an active-high device, once off() has returned and the caller makes
\* no further call, every blink thread eventually terminates and the pin is
\* eventually low for good.
C2_OffStopsBlink ==
    <>[](Returned("off") /\ device.active_state) => <>[](AliveTasks = {} /\ device.pin = Low)

\* C3: a thread of blink(.., None) that is in its loop when blink() is called
\* again eventually exits.
C3_NewBlinkEndsOldTask ==
    \A t \in Slots :
        [](callerOp = "blink" /\ callerPc = "stop_store" /\ ~taskN[t].some
             /\ taskPc[t] \notin {"none", "start"}
           => <>(taskPc[t] = "none"))

\* C4: after close() every blink thread eventually terminates and the pin
\* handle is released (the last Arc is dropped).
C4_CloseStopsBlink == [](callerPc = "closed" => <>(AliveTasks = {} /\ strong = 0))

\* the writes of k on/off cycles
Cycles(k) == [j \in 1..(IF k > 0 THEN 2 * k ELSE 0) |-> j % 2 = 1]
IsPrefix(a, b) == Len(a) <= Len(b) /\ SubSeq(b, 1, Len(a)) = a

\* C5: a thread of blink(.., Some(k)) with no stop() since its spawn writes on,
\* off, on, off, ...: never more than k cycles, never the off of a break, and
\* exactly k cycles (none when k <= 0) when it terminates.
C5_FiniteBlinkCycles ==
    /\ [](\A t \in Slots :
            Alive(t) /\ taskN[t].some /\ ~cancelled[t]
            => /\ IsPrefix(writes[t], Cycles(taskN[t].end))
               /\ taskPc[t] \notin {"break_lock", "break_off"})
    /\ [][\A t \in Slots :
            Alive(t) /\ taskPc'[t] = "none" /\ taskN[t].some /\ ~cancelled[t]
            => writes[t] = Cycles(taskN[t].end)]_vars

\* a finite blink of MaxN cycles has written all of them and is about to end
C5_Witness ==
    \E t \in Slots :
        /\ taskPc[t] = "sleep_off" /\ taskN[t] = Some(MaxN) /\ taskI[t] = MaxN
        /\ ~cancelled[t] /\ writes[t] = Cycles(MaxN) /\ Len(writes[t]) = 2 * MaxN

\* C6: with no blink thread alive, after on() value() is true and the level is
\* active_state, after off() value() is false and the level is inactive_state
\* (either polarity); set_active_high(false) after on() on an active-high
\* device makes value() false and leaves the level as it is.
C6_OnOffLevels ==
    /\ [](/\ Returned("on") /\ calls # <<>>
             => value(device) /\ device.pin = device.active_state
          /\ Returned("off") /\ calls # <<>>
             => ~value(device) /\ device.pin = device.inactive_state)
    /\ [][/\ callerOp = "set_active_high" /\ callerPc = "device_op" /\ callerPc' = "idle"
          /\ ~callerValue /\ Len(calls) >= 2 /\ Prev(1).op = "on" /\ device.active_state
          => /\ value(device) /\ device.pin = High
             /\ ~value(device') /\ device'.pin = device.pin]_vars

\* set_active_high(false) has returned after on() on an active-high device
C6_Witness ==
    /\ Returned("set_active_high") /\ Len(calls) >= 2
    /\ Prev(1).op = "on" /\ Prev(0).device.active_state /\ Prev(0).device.pin = High
    /\ ~device.active_state /\ device.pin = High /\ ~value(device)

\* C7: no step of toggle() changes the flag, ends a blink thread or goes
\* through stop(); toggle() changes the device only in the one step it takes
\* under the guard, and there it inverts the logical value.
C7_ToggleLeavesBlink ==
    [][CallerStepOf("toggle")
       => /\ blinking' = blinking
          /\ taskPc' = taskPc
          /\ callerPc' \in {"device_lock", "device_op", "idle"}
          /\ lock' = Caller => callerPc = "device_lock" /\ lock = NoOwner
          /\ callerPc # "device_op" => device' = device
          /\ callerPc = "device_op"
             => /\ lock = Caller /\ lock' = NoOwner
                /\ value(device') = ~value(device)
                /\ device'.active_state = device.active_state
                /\ device'.inactive_state = device.inactive_state]_vars

\* toggle() has returned with a blink thread in its loop and the flag set
C7_Witness ==
    /\ Returned("toggle") /\ blinking
    /\ \E t \in Slots : taskPc[t] \in {"on_lock", "sleep_on", "sleep_off"}

\* C8: no step of set_active_high(v) changes the level of the pin or the flag,
\* its step under the guard sets active_state = v and inactive_state = ~v;
\* and after set_active_high(true); set_active_high(false);
\* set_active_high(true) on an active-high device the polarity is the
\* original one and the level has been the same throughout.
C8_SetActiveHighFrame ==
    /\ [][CallerStepOf("set_active_high")
          => /\ device'.pin = device.pin
             /\ blinking' = blinking
             /\ callerPc # "device_op" => device' = device
             /\ callerPc = "device_op"
                => /\ device'.active_state = callerValue
                   /\ device'.inactive_state = ~callerValue]_vars
    /\ [](/\ Returned("set_active_high") /\ Len(calls) >= 3
          /\ \A k \in 0..2 : Prev(k).op = "set_active_high"
          /\ Prev(2).value /\ ~Prev(1).value /\ Prev(0).value
          /\ Prev(2).device.active_state
          => /\ device.active_state = Prev(2).device.active_state
             /\ device.inactive_state = Prev(2).device.inactive_state
             /\ \A k \in 0..2 : Prev(k).device.pin = device.pin)

\* the three calls have returned, with the pin high
C8_Witness ==
    /\ Returned("set_active_high") /\ Len(calls) >= 3
    /\ \A k \in 0..2 : Prev(k).op = "set_active_high"
    /\ Prev(2).value /\ ~Prev(1).value /\ Prev(0).value
    /\ Prev(2).device.active_state /\ ~Prev(0).device.active_state
    /\ device.pin = High /\ device.active_state

\* C9: with no blink thread alive, a second on() (off()) leaves the device and
\* the flag as the first one left them, for the methods of OutputDeviceR and
\* for those of DigitalOutputDeviceR.
C9_OnOffIdempotent ==
    /\ on(on(device)) = on(device)
    /\ off(off(device)) = off(device)
    /\ \A op \in {"on", "off"} :
        Returned(op) /\ Len(calls) >= 2 /\ Prev(1).op = op
        => device = Prev(0).device /\ blinking = Prev(0).blinking

\* on(); on() has returned on an active-low device
C9_Witness ==
    /\ Returned("on") /\ Len(calls) >= 2 /\ Prev(1).op = "on"
    /\ ~Prev(1).device.active_state /\ Prev(1).device.pin = High
    /\ device.pin = Low

\* C10: with no blink thread alive, toggle() inverts value(), and toggle();
\* toggle() restores the logical value and the level of the pin.
C10_ToggleInvolution ==
    /\ Returned("toggle") /\ calls # <<>>
       => value(device) = ~value(Prev(0).device)
    /\ Returned("toggle") /\ Len(calls) >= 2 /\ Prev(1).op = "toggle"
       => /\ value(device) = value(Prev(1).device)
          /\ device.pin = Prev(1).device.pin

\* toggle(); toggle() has returned on an active-low device whose pin was high
C10_Witness ==
    /\ Returned("toggle") /\ Len(calls) >= 2 /\ Prev(1).op = "toggle"
    /\ ~device.active_state /\ Prev(1).device.pin = High /\ device.pin = High

\* C11: value_to_state and state_to_value are inverses of each other, for
\* the polarity of every reachable device and all booleans.
C11_PolarityInverse ==
    \A b \in BOOLEAN :
        /\ value_to_state(device, state_to_value(device, b)) = b
        /\ state_to_value(device, value_to_state(device, b)) = b

\* an active-low device
C11_Witness == Returned("set_active_high") /\ ~device.active_state /\ device.pin = High

\* C12: blink() never waits for a blink thread: when it comes to the lock
\* acquisition of stop(), the Mutex is not held by a thread.
C12_BlinkNeverWaits == callerOp = "blink" /\ callerPc = "stop_lock" => lock \notin Slots

\* a method the caller is in and has not returned from
InCall == callerPc \notin {"idle", "closed"}

\* C12 as amended: inside a method the caller waits only at a lock
\* acquisition, and only for a blink thread that holds the guard for one pin
\* write: the holder's next step is that write, which releases the guard (no
\* thread sleeps or waits with the guard); blink() waits for no thread to
\* run further or to end; under fair scheduling every call returns (the
\* caller is outside of a call again and again).
C12_WaitsOnlyForHolder ==
    /\ [](InCall /\ callerPc \notin {"stop_lock", "device_lock"} => ENABLED CallerStep(Slots))
    /\ [](InCall /\ callerPc \in {"stop_lock", "device_lock"} /\ lock # NoOwner
          => /\ lock \in Slots
             /\ taskPc[lock] \in {"on", "off", "break_off"}
             /\ ENABLED TaskStep(lock))
    /\ []<>(~InCall)

\* blink() is at the lock acquisition of stop() and the blink thread of an
\* earlier blink(.., None) holds the guard for its on-write
C12_Witness ==
    /\ callerOp = "blink" /\ callerPc = "stop_lock"
    /\ \E t \in Slots : lock = t /\ taskPc[t] = "on" /\ ~taskN[t].some

\* C13: at most one blink thread is alive.
C13_AtMostOneLive == Cardinality(AliveTasks) <= 1

\* C13 as amended: at most one of the blink threads alive has seen no stop()
\* since its spawn; the threads signalled before may still be alive.
C13_AtMostOneUnsignalled == Cardinality({t \in Slots : Alive(t) /\ ~cancelled[t]}) <= 1

\* two blink threads are in their loops, the older one signalled
C13_Witness ==
    \E t, u \in Slots :
        /\ t # u /\ cancelled[t] /\ ~cancelled[u]
        /\ taskPc[t] \notin {"none", "start"} /\ taskPc[u] \notin {"none", "start"}

\* C14: between the forced low of stop() and the final write of on()/off(), no
\* other thread's write of the pin takes effect.
C14_OnOffAtomic ==
    [][(/\ callerOp \in {"on", "off"}
        /\ callerPc \in {"device_lock", "device_op"}
        /\ callerPc' = callerPc)
       => device'.pin = device.pin]_vars

\* C14 as amended: each of the two guarded writes of on()/off() is atomic (no
\* other thread changes the device while the caller holds the guard); the
\* guard is free between the two.
C14_GuardedWritesAtomic ==
    /\ [][(/\ callerOp \in {"on", "off"}
           /\ callerPc \in {"stop_set_low", "device_op"}
           /\ callerPc' = callerPc)
          => device' = device]_vars
    /\ [](callerOp \in {"on", "off"} /\ callerPc = "device_lock" => lock # Caller)

\* on() is between its two writes and a blink thread has raised the pin that
\* stop() forced low
C14_Witness ==
    /\ callerOp = "on" /\ callerPc = "device_lock" /\ device.active_state
    /\ device.pin = High /\ \E t \in Slots : taskPc[t] = "sleep_on"

\* the threads that are inside a guarded statement
Holders ==
    (IF callerPc \in {"stop_set_low", "device_op"} THEN {Caller} ELSE {})
        \cup {t \in Slots : taskPc[t] \in {"on", "off", "break_off"}}

\* C15: at most one thread is inside a guarded statement, it is the owner of
\* the Mutex, and the device (pin and polarity) is read and written only by
\* a step of that thread.
C15_DeviceUnderLock ==
    /\ [](/\ Cardinality(Holders) <= 1
          /\ lock = NoOwner <=> Holders = {}
          /\ lock # NoOwner => Holders = {lock})
    /\ [][device' # device
          => /\ lock # NoOwner /\ lock' = NoOwner
             /\ IF lock = Caller THEN callerPc' # callerPc ELSE taskPc'[lock] # taskPc[lock]]_vars
    /\ [][callerPc = "device_op" /\ callerPc' # callerPc => lock = Caller]_vars

\* two blink threads are alive, one holds the guard, the other and the caller
\* wait for it
C15_Witness ==
    \E t, u \in Slots :
        /\ t # u /\ lock = t /\ taskPc[t] = "on"
        /\ taskPc[u] \in {"on_lock", "sleep_on", "break_lock"}
        /\ callerPc \in {"stop_lock", "device_lock"}

\* C18: a finite blink that ends with no stop() since its spawn leaves the
\* flag true; no blink thread clears the flag: only stop() does.
C18_FlagLeftTrue ==
    /\ [][\A t \in Slots :
            Alive(t) /\ taskPc'[t] = "none" /\ taskN[t].some /\ ~cancelled[t]
            => blinking /\ blinking']_vars
    /\ [][blinking /\ ~blinking' => callerPc = "stop_store" /\ callerPc' = "stop_lock"]_vars

\* blink(.., Some(k)) has returned, its thread has ended, the flag is true
C18_Witness == Returned("blink") /\ AliveTasks = {} /\ blinking /\ strong = 1

\* C19: active_state = ~inactive_state in every reachable state; the device
\* as constructed is active-high with the flag false.
C19_PolarityInvariant ==
    /\ device.active_state = ~device.inactive_state
    /\ callerOp = "new"
       => device.active_state /\ ~device.inactive_state /\ ~blinking /\ AliveTasks = {}

\* an active-low device that a blink thread has just turned on
C19_Witness ==
    /\ ~device.active_state /\ device.inactive_state /\ device.pin = Low
    /\ \E t \in Slots : taskPc[t] = "sleep_on"

C16_StoppedEndsByBreak ==
    [][\A t \in Slots :
         stopped[t] # "no" /\ taskPc'[t] = "none" => taskPc[t] = "break_off"]_vars

\* C16 as amended: the signalled thread does at most one more on-write; at
\* the top of its next iteration it either finds the range 0..end exhausted
\* and ends with no further write, or finds the flag cleared and goes to
\* the break, where it writes logical off and ends; under fair scheduling it
\* does end.
C16_StoppedEndsSoon ==
    /\ [](\A t \in Slots : stopped[t] # "no" => ~blinking /\ stopped[t] # "on2")
    /\ [][\A t \in Slots :
            stopped[t] # "no" /\ taskPc[t] \in {"loop", "sleep_off"} /\ taskPc'[t] # taskPc[t]
            => \/ taskPc'[t] = "break_lock"
               \/ /\ taskPc'[t] = "none" /\ device' = device
                  /\ taskN[t].some /\ ~RangeYields(taskI[t], taskN[t].end)]_vars
    /\ [][\A t \in Slots :
            taskPc[t] = "break_off" /\ taskPc'[t] # taskPc[t]
            => taskPc'[t] = "none" /\ device' = off(device)]_vars
    /\ \A t \in Slots : []<>(stopped[t] = "no")

\* a signalled thread of a finite blink has finished its last cycle: the
\* range is exhausted, and it will end without a look at the flag
C16_Witness ==
    \E t \in Slots :
        /\ stopped[t] = "on" /\ taskPc[t] = "sleep_off"
        /\ taskN[t].some /\ ~RangeYields(taskI[t], taskN[t].end)

\* what on(), off() and blink() do, in order, to the flag, the pin and the
\* threads
Expected(op) ==
    CASE op = "on" -> <<"store_false", "set_low", PinEvent(device.active_state)>>
      [] op = "off" -> <<"store_false", "set_low", PinEvent(device.inactive_state)>>
      [] op = "blink" -> <<"store_false", "set_low", "spawn">>

\* C17: on(), off() and blink() clear the flag first, then drive the pin low
\* under the lock whatever the polarity, and only then write the level of
\* the device or spawn the thread.
C17_StopComesFirst ==
    /\ [](callerOp \in {"on", "off", "blink"}
          => /\ IsPrefix(trace, Expected(callerOp))
             /\ callerPc = "stop_store" => trace = <<>>
             /\ callerPc \in {"device_lock", "device_op", "spawn"}
                => trace = SubSeq(Expected(callerOp), 1, 2)
             /\ callerPc = "idle" => trace = Expected(callerOp))
    /\ [][callerPc = "stop_set_low" /\ callerPc' # callerPc
          => lock = Caller /\ device'.pin = Low]_vars

\* on() has returned on an active-high device that was on when it began: the
\* pin was written low, then high
C17_Witness ==
    /\ Returned("on") /\ calls # <<>>
    /\ device.active_state /\ Prev(0).device.pin = High
    /\ trace = <<"store_false", "set_low", "set_high">>

TypeOK ==
    /\ device \in [pin : BOOLEAN, active_state : BOOLEAN, inactive_state : BOOLEAN]
    /\ lock \in {NoOwner, Caller} \cup Slots
    /\ blinking \in BOOLEAN
    /\ strong \in 0..(MaxTasks + 2)
    /\ callerOp \in Ops \cup {"new", "close"}
    /\ taskN \in [Slots -> NChoices]
    /\ trace \in Seq({"store_false", "store_true", "set_low", "set_high", "spawn"})
    /\ stopped \in [Slots -> {"no", "yes", "on", "on2"}]
====
